---- MODULE Spec2Model ----
(***************************************************************************)
(* Model of the review ledger of api_yamdb: titles with a stored rating,   *)
(* reviews (one per title and author), comments, and the permission        *)
(* classes that gate the HTTP handlers.                                    *)
(*                                                                         *)
(* The database runs in autocommit mode (no transaction.atomic and no      *)
(* ATOMIC_REQUESTS anywhere in the source), so every ORM statement is one  *)
(* atomic step and a handler is a sequence of such steps.  A handler in    *)
(* progress occupies a slot of `req`, which holds its position and its     *)
(* local variables.                                                        *)
(***************************************************************************)
EXTENDS Integers, FiniteSets, Sequences, TLC

\* ---------------------------------------------------------------- bounds
MaxTitleId == 1
MaxReviewId == 2
MaxCommentId == 1
MaxCategoryId == 2
MaxGenreId == 2
MaxNewUsers == 1
MaxReq == 2

\* ------------------------------------------------------------- constants
\* reviews/constants.py: the documented range of a score
MIN_SCORE == 1
MAX_SCORE == 10

TitleIds == 1..MaxTitleId
ReviewIds == 1..MaxReviewId
CommentIds == 1..MaxCommentId
ReviewSlots == 1..MaxReq
HttpSlot == MaxReq + 1
Slots == 1..(MaxReq + 1)

\* The users registered at the start and the roles they were given.  The
\* primary key of such a row is written as the username it starts with;
\* the rows inserted later take their keys from NewUserPks.  "eve" is a row
\* whose is_active is off.  ANON is the AnonymousUser of a request without
\* credentials.
ANON == "anon"
UserNames == {"alice", "bob", "mod", "adm", "root", "eve"}
NewUserPks == <<"u7", "u8">>
UserIds == UserNames \cup {NewUserPks[i] : i \in 1..MaxNewUsers}
Actors == (UserNames \ {"eve"}) \cup {ANON}
Authors == {"alice", "bob"}
InitRole == [u \in UserIds |->
               CASE u = "mod" -> "moderator"
                 [] u = "adm" -> "admin"
                 [] u \in UserNames -> "user"
                 [] OTHER -> "-"]
InitStaff == [u \in UserIds |-> u = "root"]

\* Scores a request may carry: the documented range and its two neighbours.
ScoreInputs == {7, 8, 11}
TitleNames == {"n1", "n2"}
CategorySlugs == {"c1"}
GenreSlugs == {"g1"}

\* Python None, a float held as the exact quotient num/den, and an int.
None == [none |-> TRUE]
Float(n, d) == [num |-> n, den |-> d]
IntVal(k) == [int |-> k]

VARIABLES
  users,          \* primary keys of the rows of User
  role,           \* User.role
  staff,          \* User.is_staff / User.is_superuser
  bio,            \* User.bio
  username,       \* User.username
  email,          \* User.email
  active,         \* User.is_active
  nextUserNo,     \* index in NewUserPks of the key of the next new row
  titles,         \* primary keys of the rows of Title
  titleRow,       \* Title fields: name, rating, category
  nextTitleId,
  reviews,        \* rows of Review: id, title, author, score
  nextReviewId,
  comments,       \* rows of Comment: id, review, author
  nextCommentId,
  categories,     \* rows of Category: id, slug
  nextCategoryId,
  genres,         \* rows of Genre: id, slug
  nextGenreId,
  req,            \* the handlers in progress
  resp            \* the response to the last HTTP request answered

userVars == <<users, role, staff, bio, username, email, active, nextUserNo>>
titleVars == <<titles, titleRow, nextTitleId>>
catalogVars == <<categories, nextCategoryId, genres, nextGenreId>>
reviewVars == <<reviews, nextReviewId>>
commentVars == <<comments, nextCommentId>>
vars == <<users, role, staff, bio, username, email, active, nextUserNo,
          titles, titleRow, nextTitleId, categories, nextCategoryId, genres,
          nextGenreId, reviews, nextReviewId, comments, nextCommentId, req,
          resp>>

\* ------------------------------------------------------------ User model
\* A User object: the row with primary key `id` as a SELECT gave it.
\* AnonymousUser stands where no row was loaded.
AnonymousUser == [id |-> ANON, role |-> "-", staff |-> FALSE, bio |-> "-",
                  username |-> "-", email |-> "-", active |-> FALSE]
UserObject(u) == [id |-> u, role |-> role[u], staff |-> staff[u],
                  bio |-> bio[u], username |-> username[u],
                  email |-> email[u], active |-> active[u]]

\* request.user: the object the authentication of the request loaded for
\* the bearer of the credentials of row a, once, before the view runs.  A
\* request without credentials, or with those of a row that is gone or not
\* active, carries AnonymousUser.
RequestUser(a) ==
  IF a # ANON /\ a \in users /\ active[a] THEN UserObject(a)
  ELSE AnonymousUser

\* The properties of User and of AnonymousUser, read on the object u.
is_adminMut(u) == u.role \in {"admin", "moderator"} \/ u.staff
is_admin(u) == u.role = "admin" \/ u.staff
is_moderator(u) == u.role = "moderator" \/ is_admin(u)
is_authenticated(u) == u.id # ANON

\* ----------------------------------------------------------- title rating
ReviewsOf(t) == {r \in reviews : r.title = t}

RECURSIVE SumScore(_)
SumScore(S) == IF S = {} THEN 0
               ELSE LET r == CHOOSE x \in S : TRUE
                    IN r.score + SumScore(S \ {r})

\* reviews.aggregate(Avg('score'))['score__avg']: None over no rows, else
\* the float sum/count.
AvgScore(S) == IF S = {} THEN None ELSE Float(SumScore(S), Cardinality(S))

\* IntegerField.get_prep_value, applied by Title.save() to the rating it
\* writes: None stays None, a float goes through int(), which truncates.
IntegerField_get_prep_value(v) ==
  IF v = None THEN None ELSE IntVal(v.num \div v.den)

\* validate_score of reviews/validators.py.  No field of Review and no
\* serializer lists it among its validators.
validate_score(value) ==
  IF ~(1 <= value /\ value <= 10) THEN "ValidationError"
  ELSE "ok"

\* What titleRow holds under a key that has no row.
NoTitleRow == [name |-> "-", category |-> 0, rating |-> None]
NoResp == [op |-> "-", actor |-> "-", id |-> 0, slug |-> "-", status |-> "-"]
NoReview == [id |-> 0, title |-> 0, author |-> "-", score |-> 0]
NoComment == [id |-> 0, review |-> 0, author |-> "-"]
NoPayload == [kind |-> "-", role |-> "-", bio |-> "-", username |-> "-",
              email |-> "-"]

\* ----------------------------------------------------------------- slots
\* A slot: the handler's position, the outcome of the handler that last ran
\* in it, and the handler's local variables.  `old` is the score the
\* instance under update was loaded with, kept only by a handler started
\* with `track` (-1 otherwise): it plays no part in what the handler does.
\* An HTTP handler of several statements also holds the operation `op`,
\* request.user (`ruser`), the slug or username of its URL, the body of the
\* request (`nm`, `cat`, `data`), the objects it loaded (`tobj`, `cobj`,
\* `uobj`, and the primary keys `cpk`, `gpk` of a category and a genre) and
\* the primary keys a deletion collected (`coll`).
Idle(out) == [pc |-> "idle", out |-> out, u |-> "-", t |-> 0, score |-> 0,
              old |-> -1, rid |-> 0, tobj |-> NoTitleRow, avg |-> None,
              op |-> "-", slug |-> "-", nm |-> "-", cat |-> "-",
              data |-> NoPayload, cid |-> 0, cobj |-> NoComment,
              uobj |-> AnonymousUser, ruser |-> AnonymousUser, cpk |-> 0,
              gpk |-> 0, coll |-> {}]

Finish(s, out) == req' = [req EXCEPT ![s] = Idle(out)]
Goto(s, pc) == req' = [req EXCEPT ![s].pc = pc]
\* After the write of the review row the handler holds only the title.
GotoTitle(s, pc) == req' = [req EXCEPT ![s].pc = pc, ![s].u = "-",
                                       ![s].score = 0, ![s].rid = 0]
\* A new handler takes the first free slot of the review slots, or the
\* slot HttpSlot.
FreeSlot(s) ==
  /\ req[s].pc = "idle"
  /\ \A q \in ReviewSlots : (q < s /\ s \in ReviewSlots) => req[q].pc # "idle"

dbVars == <<userVars, catalogVars, titleVars, reviewVars, commentVars>>

\* An HTTP request answers in `resp`.  A request is taken, and an answer
\* given, once the response before it has gone out.
Respond(op, a, id, slug, status) ==
  resp' = [op |-> op, actor |-> a, id |-> id, slug |-> slug,
           status |-> status]

Ready == resp = NoResp

\* The answer of the HTTP handler in slot s, which ends with it: the
\* outcome is in the response, the slot keeps none.
Answer(s, status) ==
  /\ Ready
  /\ Respond(req[s].op, req[s].u,
             IF req[s].op \in {"comment_update", "comment_destroy"}
             THEN req[s].cid ELSE req[s].t,
             IF req[s].op = "me_update" THEN req[s].nm ELSE req[s].slug,
             status)
  /\ Finish(s, "-")

\* The end of a handler: of one run on the model, or of an HTTP request.
End(s, status) ==
  IF req[s].op = "-" THEN Finish(s, status) /\ UNCHANGED resp
  ELSE Answer(s, status)

\* Unique index of Review.Meta.unique_together = ('title', 'author') and
\* the foreign key of Review.title, as the database checks them on a write
\* of row `row`.
UniqueTogetherOkMut(row) == TRUE
UniqueTogetherOk(row) ==
  \A r \in reviews : r.id # row.id =>
                       ~(r.title = row.title /\ r.author = row.author)
ForeignKeysOk(row) == row.title \in titles /\ row.author \in users

\* django.db.IntegrityError, with the constraint the database names.
IntegrityError(row) ==
  IF ~UniqueTogetherOk(row) THEN "IntegrityError: UNIQUE"
  ELSE "IntegrityError: FOREIGN KEY"

Init ==
  /\ users = UserNames
  /\ role = InitRole
  /\ staff = InitStaff
  /\ bio = [u \in UserIds |-> "-"]
  /\ username = [u \in UserIds |-> IF u \in UserNames THEN u ELSE "-"]
  /\ email = [u \in UserIds |-> IF u \in UserNames THEN u ELSE "-"]
  /\ active = [u \in UserIds |-> u \in UserNames \ {"eve"}]
  /\ nextUserNo = 1
  /\ titles = {}
  /\ titleRow = [t \in TitleIds |-> NoTitleRow]
  /\ nextTitleId = 1
  /\ reviews = {}
  /\ nextReviewId = 1
  /\ comments = {}
  /\ nextCommentId = 1
  /\ categories = {}
  /\ nextCategoryId = 1
  /\ genres = {}
  /\ nextGenreId = 1
  /\ req = [s \in Slots |-> Idle("-")]
  /\ resp = NoResp
\* ------------------------------------------------- Title.compute_rating
\* compute_rating, first statement: the aggregate query over
\* self.reviews.all(), whose result is kept in self.rating (a float).
compute_rating_aggregate(s) ==
  /\ req[s].pc = "cr_aggregate"
  /\ req' = [req EXCEPT ![s].avg = AvgScore(ReviewsOf(req[s].t)),
                        ![s].pc = "cr_save"]
  /\ UNCHANGED <<userVars, catalogVars, resp, titleVars, reviewVars, commentVars>>

\* The row Title.save() writes: every field of the loaded object, the
\* rating through IntegerField.get_prep_value.
TitleRowSaved(r) == [name |-> r.tobj.name, category |-> r.tobj.category,
                     rating |-> IntegerField_get_prep_value(r.avg)]

\* The foreign key of Title.category, checked on a write of row `row`: the
\* column holds the primary key of a category, or NULL (0).
TitleForeignKeyOk(row) ==
  row.category = 0 \/ \E c \in categories : c.id = row.category

\* Model.save() of a Title object with a primary key, first statement: the
\* UPDATE of every column by primary key.  It returns whether a row
\* matched: "ok", "norow", or the IntegrityError of a refused write.
TitleSaveUpdate(t, row) ==
  IF t \notin titles THEN "norow"
  ELSE IF ~TitleForeignKeyOk(row) THEN "IntegrityError: FOREIGN KEY"
  ELSE "ok"

\* Model.save(), second statement, run when the UPDATE matched no row: the
\* INSERT of the object under its primary key.
TitleSaveInsert(t, row) ==
  IF t \in titles THEN "IntegrityError: UNIQUE"
  ELSE IF ~TitleForeignKeyOk(row) THEN "IntegrityError: FOREIGN KEY"
  ELSE "ok"

\* compute_rating, second statement: self.save(), its UPDATE.
compute_rating_save(s) ==
  /\ req[s].pc = "cr_save"
  /\ LET row == TitleRowSaved(req[s])
         st == TitleSaveUpdate(req[s].t, row)
     IN /\ titleRow' = IF st = "ok" THEN [titleRow EXCEPT ![req[s].t] = row]
                       ELSE titleRow
        /\ IF st = "norow" THEN Goto(s, "cr_insert") ELSE Finish(s, st)
  /\ UNCHANGED <<userVars, catalogVars, resp, titles, nextTitleId, reviewVars,
                 commentVars>>

\* self.save() of compute_rating, its INSERT after an UPDATE that matched
\* no row.
compute_rating_insert(s) ==
  /\ req[s].pc = "cr_insert"
  /\ LET row == TitleRowSaved(req[s])
         st == TitleSaveInsert(req[s].t, row)
     IN /\ titles' = IF st = "ok" THEN titles \cup {req[s].t} ELSE titles
        /\ titleRow' = IF st = "ok" THEN [titleRow EXCEPT ![req[s].t] = row]
                       ELSE titleRow
        /\ Finish(s, st)
  /\ UNCHANGED <<userVars, catalogVars, resp, nextTitleId, reviewVars,
                 commentVars>>

\* ---------------------------------------------------------- Review.save
\* Entry: save() of a new Review(author, title, score), the title object
\* already loaded by the caller.
NewReviewRow(r) == [id |-> nextReviewId, title |-> r.t, author |-> r.u,
                    score |-> r.score]

\* super().save() of an instance without a primary key: INSERT.
Review_save_insert(s) ==
  /\ req[s].pc = "save_insert"
  /\ LET row == NewReviewRow(req[s]) IN
       IF UniqueTogetherOk(row) /\ ForeignKeysOk(row)
       THEN /\ reviews' = reviews \cup {row}
            /\ nextReviewId' = nextReviewId + 1
            /\ GotoTitle(s, "cr_aggregate")
       ELSE /\ Finish(s, IntegrityError(row))
            /\ UNCHANGED reviewVars
  /\ UNCHANGED <<userVars, catalogVars, resp, titleVars, commentVars>>

\* Entry: save() of a Review instance read from the database earlier, with
\* a new score assigned (what ModelSerializer.update does before save).
EnterReviewSave(s, r, sc, track) ==
  /\ FreeSlot(s)
  /\ req' = [req EXCEPT ![s] = [Idle("-") EXCEPT !.pc = "save_update",
                                  !.rid = r.id, !.t = r.title,
                                  !.u = r.author, !.score = sc,
                                  !.old = IF track THEN r.score ELSE -1]]

StartReviewSave(s, r, sc, track) ==
  /\ r \in reviews
  /\ EnterReviewSave(s, r, sc, track)
  /\ UNCHANGED <<userVars, catalogVars, resp, titleVars, reviewVars, commentVars>>

\* super().save() of an instance with a primary key, first statement: the
\* UPDATE of the row by primary key.
Review_save_update(s) ==
  /\ req[s].pc = "save_update"
  /\ LET row == [id |-> req[s].rid, title |-> req[s].t,
                 author |-> req[s].u, score |-> req[s].score] IN
       IF ~\E r \in reviews : r.id = row.id
       THEN Goto(s, "save_reinsert") /\ UNCHANGED reviews
       ELSE IF UniqueTogetherOk(row) /\ ForeignKeysOk(row)
       THEN /\ reviews' = {r \in reviews : r.id # row.id} \cup {row}
            /\ req' = [req EXCEPT ![s].pc = "load_title", ![s].u = "-",
                                   ![s].rid = 0,
                                   ![s].score = IF req[s].old >= 0 THEN @
                                                ELSE 0]
       ELSE /\ Finish(s, IntegrityError(row))
            /\ UNCHANGED reviews
  /\ UNCHANGED <<userVars, catalogVars, resp, titleVars, nextReviewId, commentVars>>

\* super().save(), second statement, run when the UPDATE matched no row:
\* the INSERT of the instance under its primary key.
Review_save_reinsert(s) ==
  /\ req[s].pc = "save_reinsert"
  /\ LET row == [id |-> req[s].rid, title |-> req[s].t,
                 author |-> req[s].u, score |-> req[s].score] IN
       IF \E r \in reviews : r.id = row.id
       THEN Finish(s, "IntegrityError: UNIQUE") /\ UNCHANGED reviews
       ELSE IF UniqueTogetherOk(row) /\ ForeignKeysOk(row)
       THEN /\ reviews' = reviews \cup {row}
            /\ req' = [req EXCEPT ![s].pc = "load_title", ![s].u = "-",
                                   ![s].rid = 0,
                                   ![s].score = IF req[s].old >= 0 THEN @
                                                ELSE 0]
       ELSE /\ Finish(s, IntegrityError(row))
            /\ UNCHANGED reviews
  /\ UNCHANGED <<userVars, catalogVars, resp, titleVars, nextReviewId, commentVars>>

\* self.title of an instance whose title is not cached: a SELECT of the
\* Title row.  Used by save() after the write and by delete() before it.
Review_title(s) ==
  /\ req[s].pc \in {"load_title", "del_load_title"}
  /\ IF req[s].t \in titles
     THEN req' = [req EXCEPT ![s].tobj = titleRow[req[s].t],
                             ![s].pc = IF req[s].pc = "load_title"
                                       THEN "cr_aggregate" ELSE "del_row"]
     ELSE Finish(s, "DoesNotExist")
  /\ UNCHANGED <<userVars, catalogVars, resp, titleVars, reviewVars, commentVars>>

\* -------------------------------------------------------- Review.delete
\* Entry: delete() of a Review instance read from the database earlier.
EnterReviewDelete(s, r) ==
  /\ FreeSlot(s)
  /\ req' = [req EXCEPT ![s] = [Idle("-") EXCEPT !.pc = "del_load_title",
                                  !.rid = r.id, !.t = r.title,
                                  !.u = r.author]]

StartReviewDelete(s, r) ==
  /\ r \in reviews
  /\ EnterReviewDelete(s, r)
  /\ UNCHANGED <<userVars, catalogVars, resp, titleVars, reviewVars, commentVars>>

\* on_delete=CASCADE of Comment.review: the comments a delete of the
\* reviews with ids `rids` takes with it.
CascadeCommentsMut(rids) == {}
CascadeComments(rids) == {c \in comments : c.review \in rids}

\* super().delete(): DELETE of the row and of the rows that cascade from it.
Review_delete_row(s) ==
  /\ req[s].pc = "del_row"
  /\ reviews' = {r \in reviews : r.id # req[s].rid}
  /\ comments' = comments \ CascadeComments({req[s].rid})
  /\ GotoTitle(s, "cr_aggregate")
  /\ UNCHANGED <<userVars, catalogVars, resp, titleVars, nextReviewId, nextCommentId>>

\* ------------------------------------- ReviewViewSet.perform_create
\* Number of handlers that may still insert a review.
PendingInserts ==
  Cardinality({s \in Slots : req[s].pc \in {"pc_get_title", "pc_exists",
                                              "save_insert"}})

\* Entry of perform_create for request.user = u, kwargs title_id = t and a
\* serializer whose validated data holds score sc.
Enterperform_create(s, u, t, sc) ==
  /\ FreeSlot(s)
  /\ nextReviewId + PendingInserts <= MaxReviewId
  /\ req' = [req EXCEPT ![s] = [Idle("-") EXCEPT !.pc = "pc_get_title",
                                  !.u = u, !.t = t, !.score = sc]]

\* perform_create called with a valid serializer.  (Through the HTTP
\* pipeline the serializer's validate raises first: ReviewCreateRequest.)
Startperform_create(s, u, t, sc) ==
  /\ is_authenticated(RequestUser(u))
  /\ Enterperform_create(s, u, t, sc)
  /\ UNCHANGED <<userVars, catalogVars, resp, titleVars, reviewVars, commentVars>>

\* title = get_object_or_404(Title, pk=title_id)
perform_create_get_title(s) ==
  /\ req[s].pc = "pc_get_title"
  /\ IF req[s].t \in titles
     THEN req' = [req EXCEPT ![s].tobj = titleRow[req[s].t],
                             ![s].pc = "pc_exists"]
     ELSE Finish(s, "Http404")
  /\ UNCHANGED <<userVars, catalogVars, resp, titleVars, reviewVars, commentVars>>

\* Review.objects.filter(title=title, author=request.user).exists()
ExistingReview(t, u) == \E r \in reviews : r.title = t /\ r.author = u

perform_create_exists(s) ==
  /\ req[s].pc = "pc_exists"
  /\ IF ExistingReview(req[s].t, req[s].u)
     THEN Finish(s, "ValidationError")
     ELSE Goto(s, "save_insert")
  /\ UNCHANGED <<userVars, catalogVars, resp, titleVars, reviewVars, commentVars>>

\* ------------------------------------- CommentViewSet.perform_create
\* Entry of perform_create for request.user = u and kwargs review_pk = rid.
Entercomment_create(s, u, rid) ==
  /\ FreeSlot(s)
  /\ nextCommentId + Cardinality({q \in Slots :
        req[q].pc \in {"cc_get_review", "cc_insert"}}) <= MaxCommentId
  /\ req' = [req EXCEPT ![s] = [Idle("-") EXCEPT !.pc = "cc_get_review",
                                  !.u = u, !.rid = rid]]

\* review = get_object_or_404(Review, pk=review_id)
comment_create_get_review(s) ==
  /\ req[s].pc = "cc_get_review"
  /\ IF \E r \in reviews : r.id = req[s].rid
     THEN Goto(s, "cc_insert")
     ELSE Finish(s, "Http404")
  /\ UNCHANGED <<userVars, catalogVars, resp, titleVars, reviewVars,
                 commentVars>>

\* serializer.save(author=request.user, review=review): INSERT of the
\* comment, under the foreign keys of Comment.review and Comment.author.
comment_create_insert(s) ==
  /\ req[s].pc = "cc_insert"
  /\ IF (\E r \in reviews : r.id = req[s].rid) /\ req[s].u \in users
     THEN /\ comments' = comments \cup {[id |-> nextCommentId,
                                         review |-> req[s].rid,
                                         author |-> req[s].u]}
          /\ nextCommentId' = nextCommentId + 1
          /\ Finish(s, "ok")
     ELSE /\ Finish(s, "IntegrityError: FOREIGN KEY")
          /\ UNCHANGED commentVars
  /\ UNCHANGED <<userVars, catalogVars, resp, titleVars, reviewVars>>

\* ------------------------------------------------------------- Comment rows
\* The foreign keys of Comment.review and Comment.author, checked on a
\* write of row `row`.
CommentForeignKeysOk(row) ==
  (\E r \in reviews : r.id = row.review) /\ row.author \in users

\* Comment.delete(): DELETE by primary key; nothing refers to a comment.
CommentDeleteRows(c) == comments' = {x \in comments : x.id # c.id}

\* save() and delete() of a Comment instance read from the database
\* earlier, run on the model.
StartCommentSave(s, c) ==
  /\ c \in comments
  /\ FreeSlot(s)
  /\ req' = [req EXCEPT ![s] = [Idle("-") EXCEPT !.pc = "co_save",
                                  !.cobj = c]]
  /\ UNCHANGED <<dbVars, resp>>

StartCommentDelete(s, c) ==
  /\ c \in comments
  /\ FreeSlot(s)
  /\ req' = [req EXCEPT ![s] = [Idle("-") EXCEPT !.pc = "co_delete",
                                  !.cobj = c]]
  /\ UNCHANGED <<dbVars, resp>>

\* serializer.save() of a comment under update: Model.save(), its UPDATE of
\* every column by primary key.  The text is the only field a PATCH can
\* change, and no state of the model holds it.
Comment_save_update(s) ==
  /\ req[s].pc = "co_save"
  /\ LET row == req[s].cobj IN
       IF ~\E c \in comments : c.id = row.id
       THEN Goto(s, "co_insert") /\ UNCHANGED <<comments, resp>>
       ELSE IF CommentForeignKeysOk(row)
       THEN /\ comments' = {c \in comments : c.id # row.id} \cup {row}
            /\ End(s, "ok")
       ELSE /\ End(s, "IntegrityError: FOREIGN KEY")
            /\ UNCHANGED comments
  /\ UNCHANGED <<userVars, catalogVars, titleVars, reviewVars, nextCommentId>>

\* Model.save() of the comment, its INSERT after an UPDATE that matched no
\* row.
Comment_save_insert(s) ==
  /\ req[s].pc = "co_insert"
  /\ LET row == req[s].cobj IN
       IF \E c \in comments : c.id = row.id
       THEN End(s, "IntegrityError: UNIQUE") /\ UNCHANGED comments
       ELSE IF CommentForeignKeysOk(row)
       THEN comments' = comments \cup {row} /\ End(s, "ok")
       ELSE End(s, "IntegrityError: FOREIGN KEY") /\ UNCHANGED comments
  /\ UNCHANGED <<userVars, catalogVars, titleVars, reviewVars, nextCommentId>>

\* perform_destroy of a comment: instance.delete().  A DELETE that matches
\* no row is no error.
Comment_delete_row(s) ==
  /\ req[s].pc = "co_delete"
  /\ CommentDeleteRows(req[s].cobj)
  /\ End(s, "ok")
  /\ UNCHANGED <<userVars, catalogVars, titleVars, reviewVars, nextCommentId>>

\* ------------------------------------------------------------- Title rows
\* INSERT of a Title; rating is read-only in the serializer and starts NULL.
TitleCreateRows(nm, cat) ==
  /\ titles' = titles \cup {nextTitleId}
  /\ titleRow' = [titleRow EXCEPT ![nextTitleId] =
                    [name |-> nm, category |-> cat, rating |-> None]]
  /\ nextTitleId' = nextTitleId + 1

\* Number of handlers that may still insert a title.
PendingTitleInserts ==
  Cardinality({s \in Slots : req[s].pc \in {"tc_validate_category",
                                              "tc_validate_genres",
                                              "tc_insert"}})

\* Title.objects.create run on the model, outside a view.
TitleCreate(nm) ==
  /\ nextTitleId + PendingTitleInserts <= MaxTitleId
  /\ TitleCreateRows(nm, 0)
  /\ UNCHANGED <<userVars, catalogVars, resp, reviewVars, commentVars, req>>

\* Title.delete(), entry: delete() of a Title instance read from the
\* database earlier, run on the model.
StartTitleDelete(s, t) ==
  /\ t \in titles
  /\ FreeSlot(s)
  /\ req' = [req EXCEPT ![s] = [Idle("-") EXCEPT !.pc = "td_collect",
                                  !.t = t]]
  /\ UNCHANGED <<dbVars, resp>>

\* Title.delete(), Collector.collect: Review.title is on_delete=CASCADE and
\* Comment.review refers to Review, so the collector reads the reviews of
\* the title (a SELECT) and keeps them; their comments it leaves to a
\* DELETE by review id.
Title_delete_collect(s) ==
  /\ req[s].pc = "td_collect"
  /\ req' = [req EXCEPT ![s].coll = {r.id : r \in ReviewsOf(req[s].t)},
                        ![s].pc = "td_delete"]
  /\ UNCHANGED <<dbVars, resp>>

\* The rows the transaction of Collector.delete removes: the comments of
\* the collected reviews, the collected reviews, the title.  The collector
\* deletes the rows itself; Review.delete() is not called.
TitleDeleteRows(t, rids) ==
  /\ titles' = titles \ {t}
  /\ titleRow' = [titleRow EXCEPT ![t] = NoTitleRow]
  /\ reviews' = {r \in reviews : r.id \notin rids}
  /\ comments' = comments \ CascadeComments(rids)

\* Title.delete(), Collector.delete: one transaction.  A review of the
\* title that the collector did not read still refers to the title at
\* COMMIT: the foreign key refuses the transaction and nothing is deleted.
Title_delete_rows(s) ==
  /\ req[s].pc = "td_delete"
  /\ IF \E r \in ReviewsOf(req[s].t) : r.id \notin req[s].coll
     THEN /\ End(s, "IntegrityError: FOREIGN KEY")
          /\ UNCHANGED <<titles, titleRow, reviews, comments>>
     ELSE /\ TitleDeleteRows(req[s].t, req[s].coll)
          /\ End(s, "ok")
  /\ UNCHANGED <<userVars, catalogVars, nextTitleId, nextReviewId,
                 nextCommentId>>

\* ModelSerializer.update of a title: the fields of the validated data set
\* on the loaded object, every other field as it was loaded.
TitleRowPatched(r) ==
  [name |-> IF r.nm # "-" THEN r.nm ELSE r.tobj.name,
   category |-> IF r.cat # "-" THEN r.cpk ELSE r.tobj.category,
   rating |-> r.tobj.rating]

\* An update of a title run on the model: the instance read from the
\* database, fields assigned, save().
StartTitleUpdate(s, t, nm) ==
  /\ t \in titles
  /\ FreeSlot(s)
  /\ req' = [req EXCEPT ![s] = [Idle("-") EXCEPT !.pc = "tu_save", !.t = t,
                                  !.nm = nm, !.tobj = titleRow[t]]]
  /\ UNCHANGED <<dbVars, resp>>

\* instance.save() of the title under update, its UPDATE.
Title_update_save(s) ==
  /\ req[s].pc = "tu_save"
  /\ LET row == TitleRowPatched(req[s])
         st == TitleSaveUpdate(req[s].t, row)
     IN /\ titleRow' = IF st = "ok" THEN [titleRow EXCEPT ![req[s].t] = row]
                       ELSE titleRow
        /\ IF st = "norow" THEN Goto(s, "tu_insert") /\ UNCHANGED resp
           ELSE End(s, st)
  /\ UNCHANGED <<userVars, catalogVars, titles, nextTitleId, reviewVars,
                 commentVars>>

\* instance.save() of the title under update, its INSERT after an UPDATE
\* that matched no row.
Title_update_insert(s) ==
  /\ req[s].pc = "tu_insert"
  /\ LET row == TitleRowPatched(req[s])
         st == TitleSaveInsert(req[s].t, row)
     IN /\ titles' = IF st = "ok" THEN titles \cup {req[s].t} ELSE titles
        /\ titleRow' = IF st = "ok" THEN [titleRow EXCEPT ![req[s].t] = row]
                       ELSE titleRow
        /\ End(s, st)
  /\ UNCHANGED <<userVars, catalogVars, nextTitleId, reviewVars, commentVars>>

\* ---------------------------------------------------------- Category rows
\* Category.delete() of the object with primary key c: Title.category is
\* on_delete=SET_NULL; the UPDATE of the titles and the DELETE of the
\* category, both by that key, are one transaction.
CategoryDeleteRows(c) ==
  /\ categories' = {x \in categories : x.id # c}
  /\ titleRow' = [t \in TitleIds |->
                    IF titleRow[t].category = c
                    THEN [titleRow[t] EXCEPT !.category = 0]
                    ELSE titleRow[t]]

\* ------------------------------------------------------ api/permissions.py
\* In the operators of this section `a` is request.user, a user object.
SAFE_METHODS == {"GET", "HEAD", "OPTIONS"}

IsOwnerOrReadOnly_has_permission(method, a) ==
  method \in SAFE_METHODS \/ is_authenticated(a)

IsOwnerOrReadOnly_has_object_permission(method, a, obj) ==
  IF method \in SAFE_METHODS THEN TRUE ELSE obj.author = a.id

IsAdminOrStaffPermission_has_permission(method, a) ==
  is_authenticated(a) /\ is_admin(a)

IsAuthorOrModerPermission_has_permission(method, a) == TRUE

IsAuthorOrModerPermission_has_object_permission(method, a, obj) ==
  \/ method \in SAFE_METHODS
  \/ obj.author = a.id
  \/ (is_authenticated(a) /\ (is_admin(a) \/ is_moderator(a)))

IsAdminOrReadOnly_has_permission(method, a) ==
  method \in SAFE_METHODS \/ (is_authenticated(a) /\ is_admin(a))

IsAdminOrReadOnly_has_object_permission(method, a, obj) ==
  method \in SAFE_METHODS \/ (is_authenticated(a) /\ is_admin(a))

IsAuthenticatedOrReadOnly_has_permission(method, a) ==
  IF method \in SAFE_METHODS THEN TRUE ELSE is_authenticated(a)

\* An entry of the list a view's get_permissions() returns: a permission
\* object, or the permission class itself where the source leaves out the
\* call that would instantiate it.
Perm(cls) == [cls |-> cls, inst |-> TRUE]
PermClass(cls) == [cls |-> cls, inst |-> FALSE]

has_permission(cls, method, a) ==
  CASE cls = "IsOwnerOrReadOnly" -> IsOwnerOrReadOnly_has_permission(method, a)
    [] cls = "IsAuthorOrModerPermission" ->
         IsAuthorOrModerPermission_has_permission(method, a)
    [] cls = "IsAdminOrReadOnly" -> IsAdminOrReadOnly_has_permission(method, a)
    [] cls = "IsAuthenticatedOrReadOnly" ->
         IsAuthenticatedOrReadOnly_has_permission(method, a)
    [] cls = "IsAdminOrStaffPermission" ->
         IsAdminOrStaffPermission_has_permission(method, a)
    [] cls = "IsAuthenticated" -> is_authenticated(a)
    [] cls = "AllowAny" -> TRUE

\* Classes without a has_object_permission of their own inherit
\* BasePermission's, which returns True.
has_object_permission(cls, method, a, obj) ==
  CASE cls = "IsOwnerOrReadOnly" ->
         IsOwnerOrReadOnly_has_object_permission(method, a, obj)
    [] cls = "IsAuthorOrModerPermission" ->
         IsAuthorOrModerPermission_has_object_permission(method, a, obj)
    [] cls = "IsAdminOrReadOnly" ->
         IsAdminOrReadOnly_has_object_permission(method, a, obj)
    [] OTHER -> TRUE

\* permission_denied: 401 for a request without credentials, else 403.
Denied(a) ==
  IF ~is_authenticated(a) THEN "NotAuthenticated" ELSE "PermissionDenied"

\* APIView.check_permissions: each entry of the list in turn, the first
\* refusal ends the request.  The call permission.has_permission(request,
\* view) on a class instead of an object lacks an argument and raises
\* TypeError, which no exception handler of the framework turns into a
\* response.
RECURSIVE check_permissions(_, _, _, _)
check_permissions(perms, i, method, a) ==
  IF i > Len(perms) THEN "ok"
  ELSE IF ~perms[i].inst THEN "TypeError"
  ELSE IF ~has_permission(perms[i].cls, method, a) THEN Denied(a)
  ELSE check_permissions(perms, i + 1, method, a)

\* APIView.check_object_permissions, called by get_object().
RECURSIVE check_object_permissions(_, _, _, _, _)
check_object_permissions(perms, i, method, a, obj) ==
  IF i > Len(perms) THEN "ok"
  ELSE IF ~perms[i].inst THEN "TypeError"
  ELSE IF ~has_object_permission(perms[i].cls, method, a, obj) THEN Denied(a)
  ELSE check_object_permissions(perms, i + 1, method, a, obj)

ReviewViewSet_get_permissions(action) ==
  IF action \in {"partial_update", "destroy"}
  THEN <<PermClass("IsAuthorOrModerPermission"), Perm("IsOwnerOrReadOnly")>>
  ELSE IF action \in {"create"} THEN <<Perm("IsAuthenticated")>>
  ELSE <<Perm("AllowAny")>>

CommentViewSet_get_permissions(action) ==
  IF action \in {"partial_update", "destroy"}
  THEN <<Perm("IsOwnerOrReadOnly"), Perm("IsAuthorOrModerPermission")>>
  ELSE IF action \in {"create"} THEN <<Perm("IsAuthenticated")>>
  ELSE <<Perm("AllowAny")>>

\* permission_classes of TitleViewSet, CategoryViewSet and GenreViewSet.
CatalogPermissions ==
  <<Perm("IsAuthenticatedOrReadOnly"), Perm("IsAdminOrReadOnly")>>

\* ReviewSerializer.validate.  `instance` is the review under update, or
\* NoReview for a create; `dataTitle` is data.get('title'), 0 when the
\* validated data holds no title.  `title` is no field of the serializer
\* (Meta.fields), so the validated data of a request never holds one.  `a`
\* is request.user.
ReviewSerializer_validate(instance, dataTitle, a) ==
  IF dataTitle = 0 /\ instance = NoReview THEN "AttributeError"
  ELSE LET title == IF dataTitle # 0 THEN dataTitle ELSE instance.title IN
       IF (instance = NoReview \/ instance.title # title)
            /\ ExistingReview(title, a.id)
       THEN "ValidationError"
       ELSE "ok"

\* ------------------------------------------------------------ api/views.py
\* An HTTP request runs check_permissions when it is taken; refused, it is
\* answered at once.  A handler that goes on to statements of its own
\* takes a slot; the review and comment creates leave their outcome in the
\* slot, the others answer in `resp` when they end.

\* The method and the view action of the requests that take a slot.
HttpMethod(op) ==
  CASE op \in {"comment_update", "title_update", "user_update",
               "me_update"} -> "PATCH"
    [] op \in {"comment_destroy", "title_destroy", "category_destroy",
               "genre_destroy", "user_destroy"} -> "DELETE"
    [] OTHER -> "POST"

ViewAction(op) ==
  CASE op = "me_update" -> "me"
    [] HttpMethod(op) = "PATCH" -> "partial_update"
    [] HttpMethod(op) = "DELETE" -> "destroy"
    [] OTHER -> "create"

\* POST titles/{t}/reviews/: check_permissions, serializer.is_valid (field
\* validation, then validate), perform_create.
ReviewCreateRequest(s, a, t, sc) ==
  LET p == check_permissions(ReviewViewSet_get_permissions("create"), 1,
                             "POST", RequestUser(a))
      v == ReviewSerializer_validate(NoReview, 0, RequestUser(a))
  IN /\ Ready
     /\ IF p # "ok"
        THEN Respond("review_create", a, t, "-", p) /\ UNCHANGED req
        ELSE IF v # "ok"
        THEN Respond("review_create", a, t, "-", v) /\ UNCHANGED req
        ELSE Enterperform_create(s, a, t, sc) /\ UNCHANGED resp
     /\ UNCHANGED dbVars

\* get_queryset().get(pk=rid) of ReviewViewSet: the review rid of title t.
ReviewObject(t, rid) ==
  IF \E r \in reviews : r.id = rid /\ r.title = t
  THEN CHOOSE r \in reviews : r.id = rid /\ r.title = t
  ELSE NoReview

\* What a PATCH or DELETE of titles/{t}/reviews/{rid}/ meets before its
\* handler writes: check_permissions, get_object (404, then
\* check_object_permissions) and, for PATCH, the serializer's validate.
\* check_permissions raises for every actor (the first entry of the list is
\* a class), so no request reaches the statements after it.
ReviewMutationGate(action, method, a, t, rid) ==
  LET perms == ReviewViewSet_get_permissions(action)
      p == check_permissions(perms, 1, method, RequestUser(a))
      obj == ReviewObject(t, rid)
  IN IF p # "ok" THEN p
     ELSE IF obj = NoReview THEN "Http404"
     ELSE IF check_object_permissions(perms, 1, method, RequestUser(a), obj)
               # "ok"
     THEN check_object_permissions(perms, 1, method, RequestUser(a), obj)
     ELSE IF action = "partial_update"
     THEN ReviewSerializer_validate(obj, 0, RequestUser(a))
     ELSE "ok"

\* PATCH titles/{t}/reviews/{rid}/
ReviewUpdateRequest(s, a, t, rid, sc) ==
  LET g == ReviewMutationGate("partial_update", "PATCH", a, t, rid)
  IN /\ Ready
     /\ IF g # "ok"
        THEN Respond("review_update", a, rid, "-", g) /\ UNCHANGED req
        ELSE EnterReviewSave(s, ReviewObject(t, rid), sc, FALSE)
             /\ UNCHANGED resp
     /\ UNCHANGED dbVars

\* DELETE titles/{t}/reviews/{rid}/
ReviewDestroyRequest(s, a, t, rid) ==
  LET g == ReviewMutationGate("destroy", "DELETE", a, t, rid)
  IN /\ Ready
     /\ IF g # "ok"
        THEN Respond("review_destroy", a, rid, "-", g) /\ UNCHANGED req
        ELSE EnterReviewDelete(s, ReviewObject(t, rid)) /\ UNCHANGED resp
     /\ UNCHANGED dbVars

\* POST titles/{t}/reviews/{rid}/comments/
CommentCreateRequest(s, a, rid) ==
  LET p == check_permissions(CommentViewSet_get_permissions("create"), 1,
                             "POST", RequestUser(a))
  IN /\ Ready
     /\ IF p # "ok"
        THEN Respond("comment_create", a, rid, "-", p) /\ UNCHANGED req
        ELSE Entercomment_create(s, a, rid) /\ UNCHANGED resp
     /\ UNCHANGED dbVars

\* get_queryset().get(pk=cid) of CommentViewSet: the comment cid of review
\* rid.
CommentObject(rid, cid) ==
  IF \E c \in comments : c.id = cid /\ c.review = rid
  THEN CHOOSE c \in comments : c.id = cid /\ c.review = rid
  ELSE NoComment

\* A PATCH or DELETE of titles/{t}/reviews/{rid}/comments/{cid}/ is taken:
\* check_permissions.
CommentMutationRequest(s, op, a, rid, cid) ==
  LET p == check_permissions(CommentViewSet_get_permissions(ViewAction(op)),
                             1, HttpMethod(op), RequestUser(a))
  IN /\ Ready
     /\ FreeSlot(s)
     /\ IF p # "ok"
        THEN Respond(op, a, cid, "-", p) /\ UNCHANGED req
        ELSE /\ req' = [req EXCEPT ![s] = [Idle("-") EXCEPT
                          !.pc = "co_get_object", !.op = op, !.u = a,
                          !.ruser = RequestUser(a), !.rid = rid,
                          !.cid = cid]]
             /\ UNCHANGED resp
     /\ UNCHANGED dbVars

\* PATCH titles/{t}/reviews/{rid}/comments/{cid}/
CommentUpdateRequest(s, a, rid, cid) ==
  CommentMutationRequest(s, "comment_update", a, rid, cid)

\* DELETE titles/{t}/reviews/{rid}/comments/{cid}/
CommentDestroyRequest(s, a, rid, cid) ==
  CommentMutationRequest(s, "comment_destroy", a, rid, cid)

\* get_object of CommentViewSet, first statement: the SELECT of the comment
\* (404 when no row matches).
Comment_get_object(s) ==
  /\ req[s].pc = "co_get_object"
  /\ LET obj == CommentObject(req[s].rid, req[s].cid)
     IN IF obj = NoComment THEN Answer(s, "Http404")
        ELSE /\ req' = [req EXCEPT ![s].cobj = obj,
                                   ![s].pc = "co_check_object"]
             /\ UNCHANGED resp
  /\ UNCHANGED dbVars

\* get_object of CommentViewSet, second statement: check_object_permissions
\* on the comment found.  `obj.author == request.user` of the first
\* permission reads obj.author, a SELECT of the user row by the key the
\* comment holds: User.DoesNotExist when that row is gone.  The object stays
\* cached on the comment for the second permission.
Comment_check_object_permissions(s) ==
  /\ req[s].pc = "co_check_object"
  /\ LET o == IF req[s].cobj.author \notin users THEN "DoesNotExist"
              ELSE check_object_permissions(
                     CommentViewSet_get_permissions(ViewAction(req[s].op)),
                     1, HttpMethod(req[s].op), req[s].ruser, req[s].cobj)
     IN IF o # "ok" THEN Answer(s, o)
        ELSE /\ Goto(s, IF req[s].op = "comment_update" THEN "co_save"
                        ELSE "co_delete")
             /\ UNCHANGED resp
  /\ UNCHANGED dbVars

\* A POST, PATCH or DELETE of the catalog is taken: check_permissions under
\* the permission_classes of the view.  `fields` are the local variables of
\* the handler that goes on.
CatalogRequest(s, op, a, pc, fields) ==
  LET p == check_permissions(CatalogPermissions, 1, HttpMethod(op),
                             RequestUser(a))
  IN /\ Ready
     /\ FreeSlot(s)
     /\ IF p # "ok"
        THEN Respond(op, a, fields.t, fields.slug, p) /\ UNCHANGED req
        ELSE /\ req' = [req EXCEPT ![s] = [fields EXCEPT !.pc = pc,
                                             !.op = op, !.u = a,
                                             !.ruser = RequestUser(a)]]
             /\ UNCHANGED resp
     /\ UNCHANGED dbVars

\* get_object of a catalog view for the object it found or did not find:
\* 404, then check_object_permissions for request.user.
CatalogObjectGate(method, a, found) ==
  IF ~found THEN "Http404"
  ELSE check_object_permissions(CatalogPermissions, 1, method, a, NoReview)

\* The SELECT of a row of `rows` by its slug: the primary key of the row
\* found, 0 when no row has the slug.
SlugLookup(rows, slug) ==
  IF \E c \in rows : c.slug = slug
  THEN (CHOOSE c \in rows : c.slug = slug).id
  ELSE 0

\* POST titles/: the write serializer takes `category` and `genres` as
\* slugs of existing rows (SlugRelatedField over the queryset).
TitleCreateRequest(s, a, nm, cat, g) ==
  /\ nextTitleId + PendingTitleInserts <= MaxTitleId
  /\ CatalogRequest(s, "title_create", a, "tc_validate_category",
                    [Idle("-") EXCEPT !.nm = nm, !.cat = cat, !.slug = g])

\* serializer.is_valid of POST titles/, the field `category`: the SELECT of
\* the category by slug.  is_valid goes through every field before it
\* raises, so a slug that names no row is reported after the next field.
Title_create_validate_category(s) ==
  /\ req[s].pc = "tc_validate_category"
  /\ req' = [req EXCEPT ![s].cpk = SlugLookup(categories, req[s].cat),
                        ![s].pc = "tc_validate_genres"]
  /\ UNCHANGED <<dbVars, resp>>

\* serializer.is_valid of POST titles/, the field `genres`: the SELECT of
\* the genre by slug; then the errors of the two fields are raised.
Title_create_validate_genres(s) ==
  /\ req[s].pc = "tc_validate_genres"
  /\ LET g == SlugLookup(genres, req[s].slug) IN
       IF req[s].cpk = 0 \/ g = 0
       THEN Answer(s, "ValidationError")
       ELSE /\ req' = [req EXCEPT ![s].gpk = g, ![s].pc = "tc_insert"]
            /\ UNCHANGED resp
  /\ UNCHANGED dbVars

\* serializer.save() of POST titles/, first statement: the INSERT of the
\* title, under the foreign key of Title.category to the row validated.
Title_create_insert(s) ==
  /\ req[s].pc = "tc_insert"
  /\ IF \E c \in categories : c.id = req[s].cpk
     THEN /\ TitleCreateRows(req[s].nm, req[s].cpk)
          /\ req' = [req EXCEPT ![s].pc = "tc_genres", ![s].t = nextTitleId]
          /\ UNCHANGED resp
     ELSE /\ Answer(s, "IntegrityError: FOREIGN KEY")
          /\ UNCHANGED titleVars
  /\ UNCHANGED <<userVars, catalogVars, reviewVars, commentVars>>

\* serializer.save() of POST titles/, second statement: genres.set(), the
\* INSERT of the row that links the title to its genre, under the foreign
\* keys of that row to Title and to Genre.  No state of the model holds the
\* links: they go with their title and with their genre.
Title_create_genres(s) ==
  /\ req[s].pc = "tc_genres"
  /\ Answer(s, IF req[s].t \in titles /\ \E g \in genres : g.id = req[s].gpk
               THEN "ok"
               ELSE "IntegrityError: FOREIGN KEY")
  /\ UNCHANGED dbVars

\* PATCH titles/{t}/ with the fields `name` and `category` of its body, "-"
\* for a field the body does not carry.
TitleUpdateRequest(s, a, t, nm, cat) ==
  CatalogRequest(s, "title_update", a, "t_get_object",
                 [Idle("-") EXCEPT !.t = t, !.nm = nm, !.cat = cat])

\* DELETE titles/{t}/
TitleDestroyRequest(s, a, t) ==
  CatalogRequest(s, "title_destroy", a, "t_get_object",
                 [Idle("-") EXCEPT !.t = t])

\* get_object of TitleViewSet: the SELECT of the title, then
\* check_object_permissions.
Title_get_object(s) ==
  /\ req[s].pc = "t_get_object"
  /\ LET o == CatalogObjectGate(HttpMethod(req[s].op), req[s].ruser,
                                req[s].t \in titles)
     IN IF o # "ok" THEN Answer(s, o)
        ELSE /\ req' = [req EXCEPT
                  ![s].tobj = titleRow[req[s].t],
                  ![s].pc = IF req[s].op = "title_destroy" THEN "td_collect"
                            ELSE IF req[s].cat # "-" THEN "tu_validate"
                            ELSE "tu_save"]
             /\ UNCHANGED resp
  /\ UNCHANGED dbVars

\* serializer.is_valid of PATCH titles/{t}/ whose body carries a category:
\* the SELECT of the category by slug.
Title_update_validate(s) ==
  /\ req[s].pc = "tu_validate"
  /\ LET c == SlugLookup(categories, req[s].cat) IN
       IF c = 0
       THEN Answer(s, "ValidationError")
       ELSE /\ req' = [req EXCEPT ![s].cpk = c, ![s].pc = "tu_save"]
            /\ UNCHANGED resp
  /\ UNCHANGED dbVars

\* POST categories/: the slug is unique.
CategoryCreateRequest(s, a, c) ==
  /\ nextCategoryId + Cardinality({q \in Slots :
        req[q].pc \in {"cat_validate", "cat_insert"}}) <= MaxCategoryId
  /\ CatalogRequest(s, "category_create", a, "cat_validate",
                    [Idle("-") EXCEPT !.slug = c])

\* serializer.is_valid of POST categories/: the UniqueValidator of the
\* slug, a SELECT.
Category_create_validate(s) ==
  /\ req[s].pc = "cat_validate"
  /\ IF SlugLookup(categories, req[s].slug) # 0
     THEN Answer(s, "ValidationError")
     ELSE Goto(s, "cat_insert") /\ UNCHANGED resp
  /\ UNCHANGED dbVars

\* serializer.save() of POST categories/: the INSERT, under the unique
\* index of the slug.
Category_create_insert(s) ==
  /\ req[s].pc = "cat_insert"
  /\ IF SlugLookup(categories, req[s].slug) # 0
     THEN /\ Answer(s, "IntegrityError: UNIQUE")
          /\ UNCHANGED <<categories, nextCategoryId>>
     ELSE /\ categories' = categories \cup {[id |-> nextCategoryId,
                                             slug |-> req[s].slug]}
          /\ nextCategoryId' = nextCategoryId + 1
          /\ Answer(s, "ok")
  /\ UNCHANGED <<userVars, genres, nextGenreId, titleVars, reviewVars,
                 commentVars>>

\* DELETE categories/{slug}/
CategoryDestroyRequest(s, a, c) ==
  CatalogRequest(s, "category_destroy", a, "cat_get_object",
                 [Idle("-") EXCEPT !.slug = c])

\* get_object of CategoryViewSet: the SELECT of the category by slug, then
\* check_object_permissions.
Category_get_object(s) ==
  /\ req[s].pc = "cat_get_object"
  /\ LET c == SlugLookup(categories, req[s].slug)
         o == CatalogObjectGate("DELETE", req[s].ruser, c # 0)
     IN IF o # "ok" THEN Answer(s, o)
        ELSE /\ req' = [req EXCEPT ![s].cpk = c, ![s].pc = "cat_delete"]
             /\ UNCHANGED resp
  /\ UNCHANGED dbVars

\* perform_destroy of a category: instance.delete(), by the primary key of
\* the object loaded.  A DELETE that matches no row is no error.
Category_delete_rows(s) ==
  /\ req[s].pc = "cat_delete"
  /\ CategoryDeleteRows(req[s].cpk)
  /\ Answer(s, "ok")
  /\ UNCHANGED <<userVars, nextCategoryId, genres, nextGenreId, titles,
                 nextTitleId, reviewVars, commentVars>>

\* POST genres/: the slug is unique.
GenreCreateRequest(s, a, g) ==
  /\ nextGenreId + Cardinality({q \in Slots :
        req[q].pc \in {"gen_validate", "gen_insert"}}) <= MaxGenreId
  /\ CatalogRequest(s, "genre_create", a, "gen_validate",
                    [Idle("-") EXCEPT !.slug = g])

\* serializer.is_valid of POST genres/: the UniqueValidator of the slug.
Genre_create_validate(s) ==
  /\ req[s].pc = "gen_validate"
  /\ IF SlugLookup(genres, req[s].slug) # 0
     THEN Answer(s, "ValidationError")
     ELSE Goto(s, "gen_insert") /\ UNCHANGED resp
  /\ UNCHANGED dbVars

\* serializer.save() of POST genres/: the INSERT, under the unique index
\* of the slug.
Genre_create_insert(s) ==
  /\ req[s].pc = "gen_insert"
  /\ IF SlugLookup(genres, req[s].slug) # 0
     THEN /\ Answer(s, "IntegrityError: UNIQUE")
          /\ UNCHANGED <<genres, nextGenreId>>
     ELSE /\ genres' = genres \cup {[id |-> nextGenreId,
                                     slug |-> req[s].slug]}
          /\ nextGenreId' = nextGenreId + 1
          /\ Answer(s, "ok")
  /\ UNCHANGED <<userVars, categories, nextCategoryId, titleVars, reviewVars,
                 commentVars>>

\* DELETE genres/{slug}/
GenreDestroyRequest(s, a, g) ==
  CatalogRequest(s, "genre_destroy", a, "gen_get_object",
                 [Idle("-") EXCEPT !.slug = g])

\* get_object of GenreViewSet: the SELECT of the genre by slug, then
\* check_object_permissions.
Genre_get_object(s) ==
  /\ req[s].pc = "gen_get_object"
  /\ LET g == SlugLookup(genres, req[s].slug)
         o == CatalogObjectGate("DELETE", req[s].ruser, g # 0)
     IN IF o # "ok" THEN Answer(s, o)
        ELSE /\ req' = [req EXCEPT ![s].gpk = g, ![s].pc = "gen_delete"]
             /\ UNCHANGED resp
  /\ UNCHANGED dbVars

\* perform_destroy of a genre: instance.delete(), by the primary key of the
\* object loaded; the rows that link it to titles go with it.
Genre_delete_rows(s) ==
  /\ req[s].pc = "gen_delete"
  /\ genres' = {g \in genres : g.id # req[s].gpk}
  /\ Answer(s, "ok")
  /\ UNCHANGED <<userVars, categories, nextCategoryId, nextGenreId, titleVars,
                 reviewVars, commentVars>>

\* GET of a list or of one object: titles/, categories/, genres/ under the
\* permission_classes of the view, reviews and comments under what
\* get_permissions returns for the action.
ReadViews == {"titles", "categories", "genres", "reviews", "comments"}

ReadPermissions(view) ==
  CASE view = "reviews" -> ReviewViewSet_get_permissions("list")
    [] view = "comments" -> CommentViewSet_get_permissions("list")
    [] OTHER -> CatalogPermissions

ReadRequest(a, view) ==
  /\ Ready
  /\ Respond("read", a, 0, view,
             check_permissions(ReadPermissions(view), 1, "GET",
                               RequestUser(a)))
  /\ UNCHANGED <<dbVars, req>>

\* The response goes out to the client.
Deliver ==
  /\ resp # NoResp
  /\ resp' = NoResp
  /\ UNCHANGED <<dbVars, req>>

\* ------------------------------------------------------------ UserViewSet
\* permission_classes of UserViewSet, and those of its action `me`.
UserViewSet_permissions == <<Perm("IsAdminOrStaffPermission")>>
me_permissions == <<Perm("IsAuthenticated")>>

\* choices of UserSerializer.role
ROLE_CHOICES == {"user", "moderator", "admin"}

\* request.data: `kind` is the type the parser gave it ("json": a dict,
\* "form": a QueryDict); the other fields are those it carries, "-" for a
\* field it does not carry.
Payload(kind, r, b, un, em) ==
  [kind |-> kind, role |-> r, bio |-> b, username |-> un, email |-> em]
RoleInputs == {"-", "admin", "owner"}

\* me, PATCH: `if 'role' in request.data` sets request.data._mutable and
\* pops the key.  A QueryDict takes the attribute; a dict has no attribute
\* _mutable and the assignment raises AttributeError.
me_pop_roleMut(data) == [err |-> "-", data |-> data]
me_pop_role(data) ==
  IF data.role = "-" THEN [err |-> "-", data |-> data]
  ELSE IF data.kind = "json" THEN [err |-> "AttributeError", data |-> data]
  ELSE [err |-> "-", data |-> [data EXCEPT !.role = "-"]]

\* is_valid of UserSerializer and of NotAdminSerializer, the part that
\* reads no row: role is a field declared on the class, which
\* Meta.read_only_fields does not reach, so both serializers take it and
\* check it against the choices; validate_username refuses "me".
UserSerializer_is_valid(data) ==
  IF data.role # "-" /\ data.role \notin ROLE_CHOICES THEN "ValidationError"
  ELSE IF data.username = "me" THEN "ValidationError"
  ELSE "ok"

\* ModelSerializer.update of a user: the fields of the validated data set
\* on the loaded object, every other field as it was loaded.
UserRowSaved(r) ==
  [r.uobj EXCEPT
     !.role = IF r.data.role # "-" THEN r.data.role ELSE @,
     !.bio = IF r.data.bio # "-" THEN r.data.bio ELSE @,
     !.username = IF r.data.username # "-" THEN r.data.username ELSE @,
     !.email = IF r.data.email # "-" THEN r.data.email ELSE @]

\* The unique indexes of User.username and User.email, as the database
\* checks them on a write of row `row`.
UserUniqueOk(row) ==
  \A u \in users \ {row.id} :
    username[u] # row.username /\ email[u] # row.email

\* The write of every column of the row of `row`.
UserRowsWritten(row) ==
  /\ role' = [role EXCEPT ![row.id] = row.role]
  /\ staff' = [staff EXCEPT ![row.id] = row.staff]
  /\ bio' = [bio EXCEPT ![row.id] = row.bio]
  /\ username' = [username EXCEPT ![row.id] = row.username]
  /\ email' = [email EXCEPT ![row.id] = row.email]
  /\ active' = [active EXCEPT ![row.id] = row.active]

\* The SELECT of a user by username: the object found, AnonymousUser when
\* no row has the name.
UserByUsername(n) ==
  IF \E u \in users : username[u] = n
  THEN UserObject(CHOOSE u \in users : username[u] = n)
  ELSE AnonymousUser

\* GET and PATCH users/me/.  request.user is the object the authentication
\* loaded; the PATCH pops the role, validates and goes on to save that
\* object.
MeRequest(s, a, method, data) ==
  LET p == check_permissions(me_permissions, 1, method, RequestUser(a))
      popped == me_pop_role(data)
      st == IF p # "ok" THEN p
            ELSE IF method = "GET" THEN "ok"
            ELSE IF popped.err # "-" THEN popped.err
            ELSE UserSerializer_is_valid(popped.data)
  IN /\ Ready
     /\ FreeSlot(s)
     /\ IF st = "ok" /\ method = "PATCH"
        THEN /\ req' = [req EXCEPT ![s] = [Idle("-") EXCEPT
                          !.pc = "u_save", !.op = "me_update", !.u = a,
                          !.nm = data.role, !.data = popped.data,
                          !.ruser = RequestUser(a),
                          !.uobj = RequestUser(a)]]
             /\ UNCHANGED resp
        ELSE /\ Respond(IF method = "GET" THEN "me_read" ELSE "me_update",
                        a, 0, data.role, st)
             /\ UNCHANGED req
     /\ UNCHANGED dbVars

\* serializer.save() of a user under update, and user.save() of get_token:
\* Model.save(), its UPDATE of every column by primary key.
User_save_update(s) ==
  /\ req[s].pc = "u_save"
  /\ LET row == UserRowSaved(req[s]) IN
       IF row.id \notin users
       THEN /\ Goto(s, "u_insert")
            /\ UNCHANGED <<role, staff, bio, username, email, active, resp>>
       ELSE IF ~UserUniqueOk(row)
       THEN /\ Answer(s, "IntegrityError: UNIQUE")
            /\ UNCHANGED <<role, staff, bio, username, email, active>>
       ELSE /\ UserRowsWritten(row)
            /\ Answer(s, "ok")
  /\ UNCHANGED <<users, nextUserNo, catalogVars, titleVars, reviewVars,
                 commentVars>>

\* Model.save() of the user, its INSERT after an UPDATE that matched no
\* row.
User_save_insert(s) ==
  /\ req[s].pc = "u_insert"
  /\ LET row == UserRowSaved(req[s]) IN
       IF row.id \in users \/ ~UserUniqueOk(row)
       THEN /\ Answer(s, "IntegrityError: UNIQUE")
            /\ UNCHANGED <<users, role, staff, bio, username, email, active>>
       ELSE /\ users' = users \cup {row.id}
            /\ UserRowsWritten(row)
            /\ Answer(s, "ok")
  /\ UNCHANGED <<nextUserNo, catalogVars, titleVars, reviewVars, commentVars>>

\* A PATCH or DELETE of users/{username}/ is taken: check_permissions.
UserMutationRequest(s, op, a, u, data) ==
  LET p == check_permissions(UserViewSet_permissions, 1, HttpMethod(op),
                             RequestUser(a))
  IN /\ Ready
     /\ FreeSlot(s)
     /\ IF p # "ok"
        THEN Respond(op, a, 0, u, p) /\ UNCHANGED req
        ELSE /\ req' = [req EXCEPT ![s] = [Idle("-") EXCEPT
                          !.pc = "u_get_object", !.op = op, !.u = a,
                          !.ruser = RequestUser(a), !.slug = u,
                          !.data = data]]
             /\ UNCHANGED resp
     /\ UNCHANGED dbVars

\* PATCH users/{username}/
UserUpdateRequest(s, a, u, data) ==
  UserMutationRequest(s, "user_update", a, u, data)

\* DELETE users/{username}/
UserDestroyRequest(s, a, u) ==
  UserMutationRequest(s, "user_destroy", a, u, NoPayload)

\* get_object of UserViewSet: the SELECT of the user by username (404 when
\* no row matches), then check_object_permissions; for PATCH the
\* serializer's is_valid follows.
User_get_object(s) ==
  /\ req[s].pc = "u_get_object"
  /\ LET obj == UserByUsername(req[s].slug)
         perm == check_object_permissions(UserViewSet_permissions, 1,
                   HttpMethod(req[s].op), req[s].ruser, NoReview)
         o == IF obj = AnonymousUser THEN "Http404"
              ELSE IF perm # "ok" THEN perm
              ELSE IF req[s].op = "user_update"
              THEN UserSerializer_is_valid(req[s].data)
              ELSE "ok"
     IN IF o # "ok" THEN Answer(s, o)
        ELSE /\ req' = [req EXCEPT
                  ![s].uobj = obj,
                  ![s].pc = IF req[s].op = "user_update" THEN "u_save"
                            ELSE "ud_collect"]
             /\ UNCHANGED resp
  /\ UNCHANGED dbVars

\* User.delete(), entry: delete() of a User instance read from the
\* database earlier, run on the model.
StartUserDelete(s, u) ==
  /\ u \in users
  /\ FreeSlot(s)
  /\ req' = [req EXCEPT ![s] = [Idle("-") EXCEPT !.pc = "ud_collect",
                                  !.uobj = UserObject(u)]]
  /\ UNCHANGED <<dbVars, resp>>

\* User.delete(), Collector.collect: Review.author is on_delete=CASCADE and
\* Comment.review refers to Review, so the collector reads the reviews of
\* the user (a SELECT) and keeps them; the comments of the user and those
\* of the collected reviews it leaves to a DELETE by author and by review.
User_delete_collect(s) ==
  /\ req[s].pc = "ud_collect"
  /\ req' = [req EXCEPT
       ![s].coll = {r.id : r \in {x \in reviews :
                                    x.author = req[s].uobj.id}},
       ![s].pc = "ud_delete"]
  /\ UNCHANGED <<dbVars, resp>>

\* The rows the transaction of Collector.delete removes: the comments of
\* the user and of the collected reviews, the collected reviews, the user.
\* The collector deletes the rows itself: Review.delete() is not called and
\* no title is touched.
UserDeleteRows(u, rids) ==
  /\ users' = users \ {u}
  /\ reviews' = {r \in reviews : r.id \notin rids}
  /\ comments' = {c \in comments : c.author # u} \ CascadeComments(rids)

\* User.delete(), Collector.delete: one transaction.  A review of the user
\* that the collector did not read still refers to the user at COMMIT: the
\* foreign key refuses the transaction and nothing is deleted.
User_delete_rows(s) ==
  /\ req[s].pc = "ud_delete"
  /\ IF \E r \in reviews :
          r.author = req[s].uobj.id /\ r.id \notin req[s].coll
     THEN /\ End(s, "IntegrityError: FOREIGN KEY")
          /\ UNCHANGED <<users, reviews, comments>>
     ELSE /\ UserDeleteRows(req[s].uobj.id, req[s].coll)
          /\ End(s, "ok")
  /\ UNCHANGED <<role, staff, bio, username, email, active, nextUserNo,
                 catalogVars, titleVars, nextReviewId, nextCommentId>>

\* The row an INSERT of a new user writes: the next primary key, the
\* fields given, the defaults of the model for the others (role = USER,
\* is_active on).
NewUserRow(un, em, r, b) ==
  [id |-> NewUserPks[nextUserNo], role |-> IF r # "-" THEN r ELSE "user",
   staff |-> FALSE, bio |-> b, username |-> un, email |-> em,
   active |-> TRUE]

\* The INSERT of `row`, a new user.
UserInsertRows(row) ==
  /\ users' = users \cup {row.id}
  /\ UserRowsWritten(row)
  /\ nextUserNo' = nextUserNo + 1

\* POST users/ is taken: check_permissions.  The body carries username,
\* email and, or not, a role.
UserCreateRequest(s, a, data) ==
  LET p == check_permissions(UserViewSet_permissions, 1, "POST",
                             RequestUser(a))
  IN /\ Ready
     /\ FreeSlot(s)
     /\ nextUserNo <= MaxNewUsers
     /\ IF p # "ok"
        THEN Respond("user_create", a, 0, data.username, p)
             /\ UNCHANGED req
        ELSE /\ req' = [req EXCEPT ![s] = [Idle("-") EXCEPT
                          !.pc = "uc_username", !.op = "user_create",
                          !.u = a, !.ruser = RequestUser(a),
                          !.slug = data.username, !.data = data]]
             /\ UNCHANGED resp
     /\ UNCHANGED dbVars

\* serializer.is_valid of POST users/, the field `username`:
\* validate_username refuses "me" and, for a create, a name that a SELECT
\* finds taken.  is_valid goes through every field before it raises; the
\* error found here is kept in `nm`.
User_create_validate_username(s) ==
  /\ req[s].pc = "uc_username"
  /\ req' = [req EXCEPT
       ![s].nm = IF req[s].data.username = "me"
                    \/ UserByUsername(req[s].data.username) # AnonymousUser
                 THEN "ValidationError" ELSE "-",
       ![s].pc = "uc_email"]
  /\ UNCHANGED <<dbVars, resp>>

\* serializer.is_valid of POST users/, the field `email`: validate_email
\* refuses, for a create, an address that a SELECT finds taken.  Then the
\* role is checked against the choices and the errors are raised.
User_create_validate_email(s) ==
  /\ req[s].pc = "uc_email"
  /\ IF \/ req[s].nm # "-"
        \/ \E u \in users : email[u] = req[s].data.email
        \/ UserSerializer_is_valid(req[s].data) # "ok"
     THEN Answer(s, "ValidationError")
     ELSE Goto(s, "uc_insert") /\ UNCHANGED resp
  /\ UNCHANGED dbVars

\* serializer.save() of POST users/: the INSERT, under the unique indexes
\* of username and email.
User_create_insert(s) ==
  /\ req[s].pc = "uc_insert"
  /\ nextUserNo <= MaxNewUsers
  /\ LET row == NewUserRow(req[s].data.username, req[s].data.email,
                           req[s].data.role, req[s].data.bio) IN
       IF UserUniqueOk(row)
       THEN UserInsertRows(row) /\ Answer(s, "ok")
       ELSE /\ Answer(s, "IntegrityError: UNIQUE")
            /\ UNCHANGED userVars
  /\ UNCHANGED <<catalogVars, titleVars, reviewVars, commentVars>>

\* ------------------------------------------------------ signup, get_token
\* POST auth/signup/ is taken (AllowAny).  SignUpSerializer.is_valid runs
\* username_validator, which refuses "me", and then validate, which calls
\* User.objects.get_or_create(username, email); the view calls
\* get_or_create a second time, with defaults={'role': USER}, and sends the
\* confirmation code.  `nm` holds which of the two calls is running.
signup(s, un, em) ==
  /\ Ready
  /\ FreeSlot(s)
  /\ nextUserNo <= MaxNewUsers
  /\ IF un = "me"
     THEN Respond("signup", ANON, 0, un, "ValidationError") /\ UNCHANGED req
     ELSE /\ req' = [req EXCEPT ![s] = [Idle("-") EXCEPT
                       !.pc = "goc_get", !.op = "signup", !.u = ANON,
                       !.nm = "validate", !.slug = un,
                       !.data = Payload("json", "-", "-", un, em)]]
          /\ UNCHANGED resp
  /\ UNCHANGED dbVars

\* A row with the username and the email of the body exists.
SignupRowExists(r) ==
  \E u \in users : username[u] = r.data.username /\ email[u] = r.data.email

\* get_or_create returned a row: validate returns and the view goes on to
\* its own call; the view sends the code and answers 200.
signup_got(s) ==
  IF req[s].nm = "validate"
  THEN /\ req' = [req EXCEPT ![s].nm = "view", ![s].pc = "goc_get"]
       /\ UNCHANGED resp
  ELSE Answer(s, "ok")

\* QuerySet.get_or_create, first statement: the SELECT by username and
\* email.
get_or_create_get(s) ==
  /\ req[s].pc = "goc_get"
  /\ IF SignupRowExists(req[s]) THEN signup_got(s)
     ELSE Goto(s, "goc_create") /\ UNCHANGED resp
  /\ UNCHANGED dbVars

\* QuerySet.get_or_create, second statement: the INSERT, in a transaction
\* of its own.  An IntegrityError leads to the third statement.
get_or_create_create(s) ==
  /\ req[s].pc = "goc_create"
  /\ nextUserNo <= MaxNewUsers
  /\ LET row == NewUserRow(req[s].data.username, req[s].data.email, "-",
                           "-") IN
       IF UserUniqueOk(row)
       THEN UserInsertRows(row) /\ signup_got(s)
       ELSE /\ Goto(s, "goc_reget")
            /\ UNCHANGED <<userVars, resp>>
  /\ UNCHANGED <<catalogVars, titleVars, reviewVars, commentVars>>

\* QuerySet.get_or_create, third statement: the SELECT again; without a
\* row the IntegrityError is raised.  validate turns it into a
\* ValidationError, the view into a response 400.
get_or_create_reget(s) ==
  /\ req[s].pc = "goc_reget"
  /\ IF SignupRowExists(req[s]) THEN signup_got(s)
     ELSE Answer(s, IF req[s].nm = "validate" THEN "ValidationError"
                    ELSE "BadRequest")
  /\ UNCHANGED dbVars

\* POST auth/token/ is taken (AllowAny) with a username and a confirmation
\* code.  The serializer the view names, TokenSerializer, is not among the
\* serializers of the source: the fields are taken as given.
get_token(s, un, code) ==
  /\ Ready
  /\ FreeSlot(s)
  /\ req' = [req EXCEPT ![s] = [Idle("-") EXCEPT
                !.pc = "gt_get_user", !.op = "get_token", !.u = ANON,
                !.slug = un, !.nm = code]]
  /\ UNCHANGED <<dbVars, resp>>

\* get_token: get_object_or_404(User, username), check_token on the object
\* (the code is right or wrong for it), and for a user who is not active
\* is_active set and user.save(), a write of the whole object.
get_token_get_user(s) ==
  /\ req[s].pc = "gt_get_user"
  /\ LET obj == UserByUsername(req[s].slug) IN
       IF obj = AnonymousUser THEN Answer(s, "Http404")
       ELSE IF req[s].nm # "good" THEN Answer(s, "BadRequest")
       ELSE IF obj.active THEN Answer(s, "ok")
       ELSE /\ req' = [req EXCEPT ![s].uobj = [obj EXCEPT !.active = TRUE],
                                  ![s].pc = "u_save"]
            /\ UNCHANGED resp
  /\ UNCHANGED dbVars

\* ------------------------------------------------------- specifications
\* The steps of the review creates and deletes that occupy a slot of S.
CreateDeleteNext(S, Who, Scores) ==
  \/ \E s \in S, u \in Who, t \in TitleIds, sc \in Scores :
       Startperform_create(s, u, t, sc)
  \/ \E s \in S : perform_create_get_title(s)
  \/ \E s \in S : perform_create_exists(s)
  \/ \E s \in S : Review_save_insert(s)
  \/ \E s \in S : Review_title(s)
  \/ \E s \in S, r \in reviews : StartReviewDelete(s, r)
  \/ \E s \in S : Review_delete_row(s)
  \/ \E s \in S : compute_rating_aggregate(s)
  \/ \E s \in S : compute_rating_save(s)

\* The steps of the review handlers that occupy a slot of S.
ReviewNext(S, Who, Scores, track) ==
  \/ CreateDeleteNext(S, Who, Scores)
  \/ \E s \in S, r \in reviews, sc \in Scores :
       StartReviewSave(s, r, sc, track)
  \/ \E s \in S : Review_save_update(s)

\* Concurrent review handlers over titles that are created and deleted.
Next ==
  \/ ReviewNext(ReviewSlots, Authors, ScoreInputs, FALSE)
  \/ \E s \in ReviewSlots : Review_save_reinsert(s)
  \/ \E s \in ReviewSlots : compute_rating_insert(s)
  \/ \E nm \in {"n1"} : TitleCreate(nm)
  \/ \E t \in TitleIds : StartTitleDelete(HttpSlot, t)
  \/ Title_delete_collect(HttpSlot)
  \/ Title_delete_rows(HttpSlot)

Spec == Init /\ [][Next]_vars

\* Sequences of review creates, updates and deletes, one at a time, over
\* titles that stay: every UPDATE of a save() finds its row.
SeqSlots == {1}

SeqNext ==
  \/ ReviewNext(SeqSlots, Authors, ScoreInputs, TRUE)
  \/ \E nm \in {"n1"} : TitleCreate(nm)

SpecSeq == Init /\ [][SeqNext]_vars

\* The review and comment endpoints, the requests served one at a time:
\* every UPDATE of a save() finds the row its handler loaded.
ApiScores == {7}
ApiAuthors == {"alice"}

ApiNext ==
  \/ ReviewNext(SeqSlots, ApiAuthors, ApiScores, FALSE)
  \/ \E nm \in {"n1"} : TitleCreate(nm)
  \/ \E s \in SeqSlots : comment_create_get_review(s)
  \/ \E s \in SeqSlots : comment_create_insert(s)
  \/ \E s \in SeqSlots, a \in Actors, t \in TitleIds, sc \in ApiScores :
       ReviewCreateRequest(s, a, t, sc)
  \/ \E s \in SeqSlots, a \in Actors, t \in TitleIds, rid \in ReviewIds,
        sc \in ApiScores : ReviewUpdateRequest(s, a, t, rid, sc)
  \/ \E s \in SeqSlots, a \in Actors, t \in TitleIds, rid \in ReviewIds :
       ReviewDestroyRequest(s, a, t, rid)
  \/ \E s \in SeqSlots, a \in Actors, rid \in ReviewIds :
       CommentCreateRequest(s, a, rid)
  \/ \E s \in SeqSlots, a \in Actors, rid \in ReviewIds, cid \in CommentIds :
       CommentUpdateRequest(s, a, rid, cid)
  \/ \E s \in SeqSlots, a \in Actors, rid \in ReviewIds, cid \in CommentIds :
       CommentDestroyRequest(s, a, rid, cid)
  \/ \E s \in SeqSlots : Comment_get_object(s)
  \/ \E s \in SeqSlots : Comment_check_object_permissions(s)
  \/ \E s \in SeqSlots : Comment_save_update(s)
  \/ \E s \in SeqSlots : Comment_delete_row(s)
  \/ \E a \in Actors, v \in {"reviews", "comments"} : ReadRequest(a, v)
  \/ Deliver

SpecApi == Init /\ [][ApiNext]_vars

\* The catalog endpoints (titles, categories, genres), two requests in
\* progress at a time: a row may go, or come back under another primary
\* key, between two statements of a handler.
CatalogActors == {ANON, "mod", "adm"}

CatalogNext ==
  \/ \E s \in ReviewSlots, a \in Actors, nm \in {"n1"}, c \in CategorySlugs,
        g \in GenreSlugs : TitleCreateRequest(s, a, nm, c, g)
  \/ \E s \in ReviewSlots : Title_create_validate_category(s)
  \/ \E s \in ReviewSlots : Title_create_validate_genres(s)
  \/ \E s \in ReviewSlots : Title_create_insert(s)
  \/ \E s \in ReviewSlots : Title_create_genres(s)
  \/ \E s \in ReviewSlots, a \in CatalogActors, t \in TitleIds,
        nm \in {"n2"}, c \in CategorySlugs \cup {"-"} :
       TitleUpdateRequest(s, a, t, nm, c)
  \/ \E s \in ReviewSlots, a \in CatalogActors, t \in TitleIds :
       TitleDestroyRequest(s, a, t)
  \/ \E s \in ReviewSlots : Title_get_object(s)
  \/ \E s \in ReviewSlots : Title_update_validate(s)
  \/ \E s \in ReviewSlots : Title_update_save(s)
  \/ \E s \in ReviewSlots : Title_update_insert(s)
  \/ \E s \in ReviewSlots : Title_delete_collect(s)
  \/ \E s \in ReviewSlots : Title_delete_rows(s)
  \/ \E s \in ReviewSlots, a \in CatalogActors, c \in CategorySlugs :
       CategoryCreateRequest(s, a, c)
  \/ \E s \in ReviewSlots : Category_create_validate(s)
  \/ \E s \in ReviewSlots : Category_create_insert(s)
  \/ \E s \in ReviewSlots, a \in CatalogActors, c \in CategorySlugs :
       CategoryDestroyRequest(s, a, c)
  \/ \E s \in ReviewSlots : Category_get_object(s)
  \/ \E s \in ReviewSlots : Category_delete_rows(s)
  \/ \E s \in ReviewSlots, a \in CatalogActors, g \in GenreSlugs :
       GenreCreateRequest(s, a, g)
  \/ \E s \in ReviewSlots : Genre_create_validate(s)
  \/ \E s \in ReviewSlots : Genre_create_insert(s)
  \/ \E s \in ReviewSlots, a \in CatalogActors, g \in GenreSlugs :
       GenreDestroyRequest(s, a, g)
  \/ \E s \in ReviewSlots : Genre_get_object(s)
  \/ \E s \in ReviewSlots : Genre_delete_rows(s)
  \/ \E a \in CatalogActors, v \in {"titles", "categories", "genres"} :
       ReadRequest(a, v)
  \/ Deliver

SpecCatalog == Init /\ [][CatalogNext]_vars

\* Writers next to deleters: in the review slots review creates, comment
\* creates, updates of a title or of a comment; in another slot, at the
\* same time, a deletion of a title, of a review or of a comment.

CascadeNext ==
  \/ \E nm \in {"n1"} : TitleCreate(nm)
  \/ \E s \in ReviewSlots, t \in TitleIds, sc \in ApiScores :
       Startperform_create(s, "alice", t, sc)
  \/ \E s \in ReviewSlots : perform_create_get_title(s)
  \/ \E s \in ReviewSlots : perform_create_exists(s)
  \/ \E s \in ReviewSlots : Review_save_insert(s)
  \/ \E s \in ReviewSlots, rid \in ReviewIds :
       /\ is_authenticated(RequestUser("bob"))
       /\ Entercomment_create(s, "bob", rid)
       /\ UNCHANGED <<dbVars, resp>>
  \/ \E s \in ReviewSlots : comment_create_get_review(s)
  \/ \E s \in ReviewSlots : comment_create_insert(s)
  \/ \E s \in ReviewSlots, t \in TitleIds : StartTitleUpdate(s, t, "n2")
  \/ \E s \in ReviewSlots : Title_update_save(s)
  \/ \E s \in ReviewSlots : Title_update_insert(s)
  \/ \E s \in ReviewSlots, c \in comments : StartCommentSave(s, c)
  \/ \E s \in ReviewSlots : Comment_save_update(s)
  \/ \E s \in ReviewSlots : Comment_save_insert(s)
  \/ \E s \in {HttpSlot}, t \in TitleIds : StartTitleDelete(s, t)
  \/ \E s \in {HttpSlot} : Title_delete_collect(s)
  \/ \E s \in {HttpSlot} : Title_delete_rows(s)
  \/ \E s \in {HttpSlot}, r \in reviews : StartReviewDelete(s, r)
  \/ \E s \in {HttpSlot} : Review_title(s)
  \/ \E s \in {HttpSlot} : Review_delete_row(s)
  \/ \E s \in {HttpSlot}, c \in comments : StartCommentDelete(s, c)
  \/ \E s \in {HttpSlot} : Comment_delete_row(s)
  \/ \E s \in Slots : compute_rating_aggregate(s)
  \/ \E s \in Slots : compute_rating_save(s)
  \/ \E s \in Slots : compute_rating_insert(s)

SpecCascade == Init /\ [][CascadeNext]_vars

\* The account endpoints (users/, users/me/, auth/signup/, auth/token/),
\* the requests served one at a time, next to deletions of users run on
\* the model.
UserTargets == {"alice"}
SignupNames == {"alice", "carol", "me"}
SignupEmails == {"alice", "carol"}

UsersNext ==
  \/ \E a \in {ANON, "alice"}, m \in {"GET", "PATCH"},
        k \in {"json", "form"}, r \in RoleInputs, b \in {"-", "b1"} :
       MeRequest(HttpSlot, a, m, Payload(k, r, b, "-", "-"))
  \/ \E a \in Actors, u \in UserTargets, r \in RoleInputs,
        un \in {"-", "carol"} :
       UserUpdateRequest(HttpSlot, a, u, Payload("json", r, "-", un, "-"))
  \/ \E a \in Actors, u \in UserTargets : UserDestroyRequest(HttpSlot, a, u)
  \/ User_get_object(HttpSlot)
  \/ User_save_update(HttpSlot)
  \/ User_save_insert(HttpSlot)
  \/ \E a \in Actors, un \in SignupNames, em \in SignupEmails,
        r \in {"-", "admin"} :
       UserCreateRequest(HttpSlot, a, Payload("json", r, "-", un, em))
  \/ User_create_validate_username(HttpSlot)
  \/ User_create_validate_email(HttpSlot)
  \/ User_create_insert(HttpSlot)
  \/ \E un \in SignupNames, em \in SignupEmails : signup(HttpSlot, un, em)
  \/ get_or_create_get(HttpSlot)
  \/ get_or_create_create(HttpSlot)
  \/ get_or_create_reget(HttpSlot)
  \/ \E un \in {"alice", "eve"}, code \in {"good", "bad"} :
       get_token(HttpSlot, un, code)
  \/ get_token_get_user(HttpSlot)
  \/ \E s \in SeqSlots, u \in UserTargets : StartUserDelete(s, u)
  \/ \E s \in (SeqSlots \cup {HttpSlot}) : User_delete_collect(s)
  \/ \E s \in (SeqSlots \cup {HttpSlot}) : User_delete_rows(s)
  \/ Deliver

SpecUsers == Init /\ [][UsersNext]_vars

\* The deletion of a user over HTTP next to one review handler.
UserDeleteNext ==
  \/ ReviewNext(SeqSlots, ApiAuthors, ApiScores, FALSE)
  \/ \E s \in SeqSlots : Review_save_reinsert(s)
  \/ \E nm \in {"n1"} : TitleCreate(nm)
  \/ \E a \in Actors, u \in UserTargets : UserDestroyRequest(HttpSlot, a, u)
  \/ User_get_object(HttpSlot)
  \/ User_delete_collect(HttpSlot)
  \/ User_delete_rows(HttpSlot)
  \/ Deliver

SpecUserDelete == Init /\ [][UserDeleteNext]_vars

\* Concurrent review handlers over titles that stay and that an admin
\* renames.
RaceScores == {7, 8}

RaceNext ==
  \/ ReviewNext(ReviewSlots, Authors, RaceScores, FALSE)
  \/ \E s \in ReviewSlots : Review_save_reinsert(s)
  \/ \E nm \in {"n1"} : TitleCreate(nm)
  \/ \E t \in TitleIds, nm \in {"n2"} : StartTitleUpdate(HttpSlot, t, nm)
  \/ Title_update_save(HttpSlot)

SpecRace == Init /\ [][RaceNext]_vars

\* ================================================================ claims
\* No handler is between two of its statements.
Quiescent == \A s \in Slots : req[s].pc = "idle"

\* `rating` is the arithmetic mean of the scores of the rows S: None over
\* no rows, else the number x with x * |S| = sum of the scores.
IsMean(rating, S) ==
  IF S = {} THEN rating = None
  ELSE rating # None /\ rating.int * Cardinality(S) = SumScore(S)

\* C1: whenever no review operation is in progress, the rating of every
\* title is the arithmetic mean of the scores of its reviews (7.5 for the
\* scores 8 and 7), and null when it has none.
C1_RatingIsMean ==
  Quiescent => \A t \in titles : IsMean(titleRow[t].rating, ReviewsOf(t))

\* C2: at most one review exists for each (title, author) pair, in every
\* state, whatever way concurrent create requests interleave.
C2_OneReviewPerPair ==
  \A r1, r2 \in reviews :
    (r1.title = r2.title /\ r1.author = r2.author) => r1 = r2

\* A create that passed the existence check lost the race at the unique
\* index: its INSERT was refused while the winner's row is stored.
C2_Witness ==
  \E s \in Slots :
    /\ req[s].pc = "idle"
    /\ req[s].out = "IntegrityError: UNIQUE"
    /\ \E r \in reviews : \E q \in Slots : q # s /\ req[q].pc # "idle"

\* C3: a create request by an author who already has a review of the title
\* is answered with the duplicate-review validation error, and the reviews
\* and the rating of the title stay as they were.
C3_DuplicateCreateRejected ==
  [][(Ready /\ Quiescent /\ resp'.op = "review_create"
        /\ ExistingReview(resp'.id, resp'.actor))
       => (resp'.status = "ValidationError" /\ reviews' = reviews
             /\ titleRow' = titleRow)]_vars

\* C4: no state shows a title whose reviews changed and whose stored
\* rating is not yet the value compute_rating stores for them.
C4_RatingAtomicWithReviews ==
  \A t \in titles :
    titleRow[t].rating = IntegerField_get_prep_value(AvgScore(ReviewsOf(t)))

\* The author of the review or comment a mutation request names, "-" when
\* no such row exists.
TargetAuthor(op, id) ==
  LET rows == IF op \in {"review_update", "review_destroy"}
              THEN {r.author : r \in {x \in reviews : x.id = id}}
              ELSE {c.author : c \in {x \in comments : x.id = id}}
  IN IF rows = {} THEN "-" ELSE CHOOSE a \in rows : TRUE

\* C5: a PATCH or DELETE of an existing review or comment by its author,
\* by a moderator or by an admin is allowed.
C5_AuthorModeratorAdminMayMutate ==
  [][(Ready
        /\ resp'.op \in {"review_update", "review_destroy",
                         "comment_update", "comment_destroy"}
        /\ TargetAuthor(resp'.op, resp'.id) # "-"
        /\ resp'.status # "Http404"
        /\ resp'.actor # ANON
        /\ (resp'.actor = TargetAuthor(resp'.op, resp'.id)
              \/ is_moderator(RequestUser(resp'.actor))
              \/ is_admin(RequestUser(resp'.actor))))
       => resp'.status = "ok"]_vars

\* C6: a PATCH or DELETE of a review by an actor who is neither its author
\* nor a moderator nor an admin is answered with permission denied, and
\* the reviews and the rating of the title stay as they were.
C6_StrangerDenied ==
  [][(Ready
        /\ resp'.op \in {"review_update", "review_destroy"}
        /\ TargetAuthor(resp'.op, resp'.id) # "-"
        /\ resp'.actor # TargetAuthor(resp'.op, resp'.id)
        /\ ~is_moderator(RequestUser(resp'.actor)))
       => (resp'.status \in {"PermissionDenied", "NotAuthenticated"}
             /\ reviews' = reviews /\ titleRow' = titleRow)]_vars

\* C7: every stored review has a score from 1 to 10.
C7_StoredScoresInRange ==
  \A r \in reviews : MIN_SCORE <= r.score /\ r.score <= MAX_SCORE

\* C8: an update of one review of a title with n reviews from score s1 to
\* score s2 changes the rating of the title by exactly (s2 - s1) / n.
C8_UpdateShiftsRating ==
  [][\A s \in Slots :
       (req[s].pc = "cr_save" /\ req'[s].pc = "idle" /\ req[s].old >= 0
          /\ ReviewsOf(req[s].t) # {}
          /\ titleRow[req[s].t].rating # None
          /\ titleRow'[req[s].t].rating # None)
       => Cardinality(ReviewsOf(req[s].t))
            * (titleRow'[req[s].t].rating.int - titleRow[req[s].t].rating.int)
          = req[s].score - req[s].old]_vars

\* C9: every review belongs to an existing title and every comment to an
\* existing review: the deletion of a title takes its reviews and their
\* comments with it, the deletion of a review its comments.
C9_NoOrphans ==
  /\ \A r \in reviews : r.title \in titles
  /\ \A c \in comments : \E r \in reviews : r.id = c.review

\* The deletion of a title has completed, and of the review and the
\* comment that had been created nothing is left.
C9_Witness ==
  /\ Quiescent /\ req[HttpSlot].out = "ok"
  /\ nextTitleId > 1 /\ nextReviewId > 1 /\ nextCommentId > 1
  /\ titles = {} /\ reviews = {} /\ comments = {}

\* Admin capability as the claim words it.
HasAdminCapability(a) ==
  a # ANON /\ a \in users /\ active[a] /\ (role[a] = "admin" \/ staff[a])

\* The writes of the catalog over HTTP.
CatalogOps == {"title_create", "title_update", "title_destroy",
               "category_create", "category_destroy",
               "genre_create", "genre_destroy"}

\* C10: a create, update or delete of a category, genre or title gets past
\* the permission check if and only if the actor is authenticated and has
\* admin capability: the handler of such a request goes on to its
\* statements only for such an actor, and the answer is a refusal exactly
\* for the others; a refused request leaves the catalog as it was; a read
\* of the catalog is allowed to every actor.
C10_CatalogWritesAdminOnly ==
  [][/\ \A s \in Slots :
          req'[s].op \in CatalogOps => HasAdminCapability(req'[s].u)
     /\ (Ready /\ resp' # NoResp) =>
          /\ resp'.op \in CatalogOps
               => /\ (resp'.status \notin {"PermissionDenied",
                                           "NotAuthenticated"})
                       <=> HasAdminCapability(resp'.actor)
                  /\ ~HasAdminCapability(resp'.actor)
                       => UNCHANGED <<titleVars, catalogVars>>
          /\ (resp'.op = "read"
                /\ resp'.slug \in {"titles", "categories", "genres"})
               => resp'.status = "ok"]_vars

\* A user who is admin by the staff flag alone created a title.
C10_Witness ==
  /\ resp.op = "title_create" /\ resp.actor = "root" /\ resp.status = "ok"
  /\ titles # {}

\* C11: a request on the self-service path users/me/, whatever its body,
\* leaves every role as it was, in each of its steps; a step changes the
\* role of a user only as the accepted save of a PATCH of
\* users/{username}/, and a row that is inserted starts with the role user
\* unless a POST of users/ inserts it; the handlers of such a PATCH and of
\* such a POST go on to their statements only for an actor with admin
\* capability.
C11_RoleChangesOnlyByAdmin ==
  [][/\ (Ready /\ resp'.op \in {"me_update", "me_read"}) => role' = role
     /\ \A s \in Slots :
          (req[s].op = "me_update" /\ req'[s] # req[s]) => role' = role
     /\ \A s \in Slots :
          (req[s].op \notin {"user_update", "user_create"}
             /\ req'[s].op \in {"user_update", "user_create"})
            => HasAdminCapability(req'[s].u)
     /\ \A u \in UserIds :
          role'[u] # role[u]
            => \/ /\ resp'.op = "user_update" /\ resp'.status = "ok"
                  /\ \E s \in Slots : /\ req[s].op = "user_update"
                                       /\ req[s].uobj.id = u
                                       /\ req'[s].pc = "idle"
               \/ /\ u \notin users /\ u \in users'
                  /\ \/ role'[u] = "user"
                     \/ \E s \in Slots : /\ req[s].op = "user_create"
                                          /\ req'[s].pc = "idle"]_vars

\* A plain user's PATCH of users/me/ that carried role = admin was accepted
\* and saved the other field of its body; the user's role is still user.
C11_Witness ==
  /\ resp.op = "me_update" /\ resp.status = "ok" /\ resp.actor = "alice"
  /\ resp.slug = "admin"
  /\ bio["alice"] = "b1" /\ role["alice"] = "user"

\* C12: when an admin's deletion of a user is accepted, with no handler in
\* progress and every rating the mean of its title's reviews, every rating
\* is afterwards the mean of the reviews that remain, null if none does.
C12_UserDeletionRecomputes ==
  [][\A s \in Slots :
       (/\ req[s].op = "user_destroy" /\ req[s].pc = "ud_delete"
        /\ resp'.op = "user_destroy" /\ resp'.status = "ok"
        /\ \A q \in Slots \ {s} : req[q].pc = "idle"
        /\ \A t \in titles : IsMean(titleRow[t].rating, ReviewsOf(t)))
       => \A t \in titles' : IsMean(titleRow'[t].rating, ReviewsOf(t)')]_vars

\* C13: once the concurrent review handlers have all completed, the stored
\* rating of a title that two authors have reviewed is the rating
\* compute_rating stores for all the reviews then attached to it: none of
\* the committed changes is missed.
C13_NoLostRatingUpdate ==
  Quiescent =>
    \A t \in titles :
      Cardinality({r.author : r \in ReviewsOf(t)}) >= 2 =>
        titleRow[t].rating
          = IntegerField_get_prep_value(AvgScore(ReviewsOf(t)))

\* C14: a create whose INSERT the unique index of (title, author) refuses,
\* after it passed the existence check, ends as the duplicate-review
\* validation error does, and writes nothing.
C14_LostRaceReportedAsDuplicate ==
  [][\A s \in Slots :
       (req[s].pc = "save_insert" /\ ~UniqueTogetherOk(NewReviewRow(req[s]))
          /\ req'[s].pc = "idle")
       => (req'[s].out = "ValidationError" /\ reviews' = reviews
             /\ titleRow' = titleRow)]_vars

\* C15: the rating write-back of a review handler leaves the name and the
\* category of the title as they are in the database when it runs, also
\* when an admin's update of the title was committed after the handler
\* loaded the title.
C15_RatingWriteKeepsTitleFields ==
  [][\A s \in Slots :
       (req[s].pc = "cr_save" /\ req'[s].pc = "idle" /\ req[s].t \in titles)
       => /\ titleRow'[req[s].t].name = titleRow[req[s].t].name
          /\ titleRow'[req[s].t].category = titleRow[req[s].t].category]_vars
====
